---- MODULE Spec2Model ----
(***************************************************************************)
(* Model of src/auto-push.py: a watchdog observer thread that records      *)
(* filesystem events in RepositoryChangeHandler.pending_changes, and the   *)
(* main thread's tick loop that calls do_push() once per second.           *)
(*                                                                         *)
(* The main thread is modelled statement by statement (pc names the next   *)
(* statement), so that the observer thread's handlers, which are single    *)
(* attribute stores, can interleave between any two of its statements.     *)
(* Time is the integer number of seconds read by time.time(); it advances  *)
(* in time.sleep() and while a git subprocess runs.                        *)
(*                                                                         *)
(* The variables marked "history" are not program state: they record what  *)
(* has happened, for the properties to speak about.                        *)
(***************************************************************************)
EXTENDS Integers, Sequences, FiniteSets, TLC

VARIABLES
    now,              \* the wall clock, time.time(), in seconds
    pc,               \* next statement of the main thread
    exit_code,        \* process exit status, -1 while running
    observing,        \* the Observer thread is delivering events
    pending_changes,  \* RepositoryChangeHandler.pending_changes
    last_push_time,   \* RepositoryChangeHandler.last_push_time
    current_time,     \* should_push: local current_time
    branch,           \* commit_and_push: local branch
    attempt,          \* commit_and_push: loop variable attempt
    wt,               \* repository: unstaged or untracked changes exist
    index,            \* repository: staged, uncommitted changes exist
    ahead,            \* repository: commits not yet on the upstream exist
    seen_status,      \* history: what git status gave this should_push call
    seen_revlist,     \* history: what git rev-list gave this should_push call
    sp_ret,           \* history: last value returned by should_push
    sp_path,          \* history: which return of should_push was taken
    cp_ret,           \* history: last value returned by commit_and_push
    cp_log,           \* history: severity of commit_and_push's last message
    cp_stage,         \* history: how far the current/last cycle got
    commit_seen,      \* history: what git commit gave this cycle
    pushLog,          \* history: return codes of this cycle's git push calls
    pushAt,           \* history: when this cycle's last failed push returned
    pauseOk,          \* history: every pair of pushes was retry_delay apart
    sinceClear,       \* history: an accepted event since the last clear
    unobserved,       \* history: an accepted event no status/add has followed
    seen,             \* history: the paths of the events so far
    loopCalls,        \* history: git commands run by the tick loop so far
    call,             \* history: the repeated calls of should_push
    ops,              \* history: this cycle's add, commit and push calls
    failed_check      \* history: the startup check that failed

tracker == << pending_changes, last_push_time >>
repo == << wt, index, ahead >>
spLocals == << current_time, seen_status, seen_revlist >>
cpLocals == << branch, attempt >>
spHist == << sp_ret, sp_path >>
cycleHist == << cp_ret, cp_log, cp_stage, commit_seen, pushLog, pushAt, pauseOk,
               ops >>
evHist == << sinceClear, unobserved, seen >>

vars == << now, pc, exit_code, observing, tracker, repo, spLocals, cpLocals,
           spHist, cycleHist, evHist, loopCalls, call, failed_check >>

----------------------------------------------------------------------------
(* Program constants *)

max_retries == 3
retry_delay == 10
push_cooldown == 10
TickSeconds == 1

(* Bounds of the model *)

\* time.time() when the tick loop starts; last_push_time starts at 0, and
\* the real clock is far more than push_cooldown past the epoch.
StartTime == 10
\* the clock stops here
MaxTime == 34
\* longest a git subprocess is taken to run, in seconds (the code allows 30)
MaxCallTime == 1
\* most git commands of the tick loop that are counted
MaxCalls == 1
\* most calls of should_push in a row, when it is called on its own
MaxRepeat == 3

----------------------------------------------------------------------------
(* Strings *)

\* Python's `needle in hay` for str
Contains(needle, hay) ==
    \E i \in 1..(Len(hay) - Len(needle) + 1) :
        SubSeq(hay, i, i + Len(needle) - 1) = needle

IgnoredSubstrings == << ".git", ".logs", ".auto-push.log" >>

\* '.git' missing from the list
IsIgnoredDropGit(src_path) ==
    \E k \in 2..Len(IgnoredSubstrings) : Contains(IgnoredSubstrings[k], src_path)

\* any(x in event.src_path for x in ['.git', '.logs', '.auto-push.log'])
IsIgnored(src_path) ==
    \E k \in 1..Len(IgnoredSubstrings) : Contains(IgnoredSubstrings[k], src_path)

\* the files and directories the observer reports events for
Files == { "./src/app.py", "./auto-push.log", "./.git/index", "./.gitignore",
           "./.logs/auto-push.log", "./old.auto-push.log" }

Directories == { "./src", "./.git" }

\* event.src_path and event.is_directory of a watchdog event
Events == { [src_path |-> p, is_directory |-> FALSE] : p \in Files } \cup
          { [src_path |-> p, is_directory |-> TRUE] : p \in Directories }

\* IsIgnored of every path the observer reports
Ignored == [p \in Files \cup Directories |-> IsIgnored(p)]

----------------------------------------------------------------------------
(* The git subprocess: run_git_command returns (returncode, stdout, stderr). *)
(* A timeout or an exception is returned as (1, '', message).              *)

Result(code, out, err) == [code |-> code, stdout |-> out, stderr |-> err]

Failed == { Result(1, "", "Comando expirou") }

\* git status --porcelain
GitStatus == { Result(0, IF wt \/ index THEN " M src/app.py" ELSE "", "") } \cup Failed

\* git rev-list @{u}..HEAD
GitRevList == { Result(0, IF ahead THEN "3f2a9c1" ELSE "", "") } \cup Failed

\* git rev-parse --abbrev-ref HEAD
GitRevParse == { Result(0, "master", "") } \cup Failed

\* git config <key>, git ls-remote origin
GitQuery == { Result(0, "ok", "") } \cup Failed

\* git add -A
GitAdd == { Result(0, "", ""),
            Result(128, "", "fatal: Unable to create index.lock") } \cup Failed

\* git commit -m message
GitCommit ==
    (IF index
        THEN { Result(0, "[master 3f2a9c1] Auto-push", ""),
               Result(128, "", "fatal: unable to auto-detect email address") }
        ELSE IF wt
        THEN { Result(1, "no changes added to commit", "") }
        ELSE { Result(1, "nothing to commit, working tree clean", "") })
    \cup Failed

\* git push origin <branch>
GitPush == { Result(0, "", "To origin"),
             Result(1, "", "fatal: unable to access remote") } \cup Failed

\* how long a subprocess runs
CallTimes == { d \in 0..MaxCallTime : now + d <= MaxTime }

\* the tick loop ran a git command
Counted == IF loopCalls < MaxCalls THEN loopCalls + 1 ELSE loopCalls

\* what a query gave: its output, or that the command failed
Seen(r) == IF r.code # 0 THEN "failed" ELSE IF Len(r.stdout) > 0 THEN "nonempty" ELSE "empty"

\* nothing recorded
NoResult == Result(-1, "", "")

\* a git add, git commit or git push of commit_and_push and its return code
Op(name, code) == [op |-> name, code |-> code]

\* no call of should_push on its own
NoCall == [n |-> 0, pending |-> FALSE, lpt |-> 0, ret |-> FALSE,
           cooldown |-> FALSE]

----------------------------------------------------------------------------
Init ==
    /\ now = StartTime
    /\ pc = "check_name"
    /\ exit_code = -1
    /\ observing = FALSE
    /\ pending_changes = FALSE
    /\ last_push_time = 0
    /\ current_time = 0
    /\ branch = "main"
    /\ attempt = 0
    /\ wt \in BOOLEAN
    /\ index \in BOOLEAN
    /\ ahead \in BOOLEAN
    /\ seen_status = "none"
    /\ seen_revlist = "none"
    /\ sp_ret = FALSE
    /\ sp_path = "none"
    /\ cp_ret = FALSE
    /\ cp_log = "none"
    /\ cp_stage = "none"
    /\ commit_seen = NoResult
    /\ pushLog = << >>
    /\ pushAt = 0
    /\ pauseOk = TRUE
    /\ sinceClear = FALSE
    /\ unobserved = FALSE
    /\ seen = "none"
    /\ loopCalls = 0
    /\ call = NoCall
    /\ ops = << >>
    /\ failed_check = "none"

----------------------------------------------------------------------------
(* main(): the startup checks.  The clock value is immaterial before the   *)
(* tick loop starts, so these commands are taken to return at StartTime.   *)

\* the failure only logged: main goes on
ExitIgnored(code) ==
    /\ pc' = "print_status"
    /\ exit_code' = exit_code

\* sys.exit(code)
Exit(code) ==
    /\ pc' = "exited"
    /\ exit_code' = code

\* check_config: git config user.name
CheckUserName ==
    /\ pc = "check_name"
    /\ \E r \in GitQuery :
          IF r.code # 0 THEN Exit(1) /\ failed_check' = "user.name"
          ELSE pc' = "check_email" /\ UNCHANGED << exit_code, failed_check >>
    /\ UNCHANGED << now, observing, tracker, repo, spLocals, cpLocals, spHist,
                    cycleHist, evHist, loopCalls, call >>

\* check_config: git config user.email
CheckUserEmail ==
    /\ pc = "check_email"
    /\ \E r \in GitQuery :
          IF r.code # 0 THEN Exit(1) /\ failed_check' = "user.email"
          ELSE pc' = "check_remote" /\ UNCHANGED << exit_code, failed_check >>
    /\ UNCHANGED << now, observing, tracker, repo, spLocals, cpLocals, spHist,
                    cycleHist, evHist, loopCalls, call >>

\* check_remote: git ls-remote origin
CheckRemote ==
    /\ pc = "check_remote"
    /\ \E r \in GitQuery :
          IF r.code # 0 THEN Exit(1) /\ failed_check' = "remote"
          ELSE pc' = "print_status" /\ UNCHANGED << exit_code, failed_check >>
    /\ UNCHANGED << now, observing, tracker, repo, spLocals, cpLocals, spHist,
                    cycleHist, evHist, loopCalls, call >>

\* print_status: get_current_branch and get_status, printed and discarded
PrintStatus ==
    /\ pc = "print_status"
    /\ \E b \in GitRevParse, s \in GitStatus : pc' = "observer_start"
    /\ UNCHANGED << now, exit_code, observing, tracker, repo, spLocals,
                    cpLocals, spHist, cycleHist, evHist, loopCalls, call, failed_check >>

\* RepositoryChangeHandler(git_manager); observer.schedule(); observer.start()
ObserverStart ==
    /\ pc = "observer_start"
    /\ pending_changes' = FALSE
    /\ last_push_time' = 0
    /\ observing' = TRUE
    /\ pc' = "sleep"
    /\ UNCHANGED << now, exit_code, repo, spLocals, cpLocals, spHist,
                    cycleHist, evHist, loopCalls, call, failed_check >>

----------------------------------------------------------------------------
(* The watched tree and the observer thread.  A file operation leaves the  *)
(* working tree with or without a difference from HEAD; the observer calls *)
(* the handler for it later, on its own thread.  on_modified, on_created   *)
(* and on_deleted have the same body.                                      *)

\* a file under repo_path is written, created, deleted or reverted
FileOperation ==
    /\ pc \notin { "exited", "finished" }
    /\ wt' = ~wt
    /\ UNCHANGED << now, pc, exit_code, observing, tracker, index, ahead,
                    spLocals, cpLocals, spHist, cycleHist, evHist, loopCalls,
                    call, failed_check >>

\* the paths of Files and Directories that are the version-control directory,
\* the log directory or the log file name, or contain one of them
ExcludedPaths == { "./.git", "./.git/index", "./.gitignore",
                   "./.logs/auto-push.log", "./old.auto-push.log" }

\* an accepted event: of a file, with no excluded path
Accepted(event) ==
    ~event.is_directory /\ event.src_path \notin ExcludedPaths

\* the path not looked at
DroppedOnlyDirectories(event) ==
    event.is_directory

\* if event.is_directory: return
\* if any(x in event.src_path for x in [...]): return
Dropped(event) ==
    event.is_directory \/ Ignored[event.src_path]

\* events ignored while commit_and_push runs
RecordOnlyWhenIdle(event) ==
    /\ observing
    /\ pending_changes' = IF Dropped(event) \/ cp_stage \in { "entered", "staged", "committed" }
                             THEN pending_changes ELSE TRUE
    /\ sinceClear' = (sinceClear \/ Accepted(event))
    /\ unobserved' = (unobserved \/ Accepted(event))
    /\ seen' = IF event.src_path \notin ExcludedPaths THEN "other"
               ELSE IF seen = "none" THEN "excluded" ELSE seen
    /\ UNCHANGED << now, pc, exit_code, observing, last_push_time, repo,
                    spLocals, cpLocals, spHist, cycleHist, loopCalls, call,
                    failed_check >>

\* the handler starts the push itself: self.do_push() after the store
RecordAndPush(event) ==
    /\ observing
    /\ pending_changes' = IF Dropped(event) THEN pending_changes ELSE TRUE
    /\ pc' = IF Dropped(event) THEN pc ELSE "dp_time"
    /\ sinceClear' = (sinceClear \/ Accepted(event))
    /\ unobserved' = (unobserved \/ Accepted(event))
    /\ seen' = IF event.src_path \notin ExcludedPaths THEN "other"
               ELSE IF seen = "none" THEN "excluded" ELSE seen
    /\ UNCHANGED << now, exit_code, observing, last_push_time, repo,
                    spLocals, cpLocals, spHist, cycleHist, loopCalls, call,
                    failed_check >>

\* the body shared by the three handlers: self.pending_changes = True
Record(event) ==
    /\ observing
    /\ pending_changes' = IF Dropped(event) THEN pending_changes ELSE TRUE
    /\ sinceClear' = (sinceClear \/ Accepted(event))
    /\ unobserved' = (unobserved \/ Accepted(event))
    /\ seen' = IF event.src_path \notin ExcludedPaths THEN "other"
               ELSE IF seen = "none" THEN "excluded" ELSE seen
    /\ UNCHANGED << now, pc, exit_code, observing, last_push_time, repo,
                    spLocals, cpLocals, spHist, cycleHist, loopCalls, call, failed_check >>

On_modified == \E event \in Events : Record(event)

On_created == \E event \in Events : Record(event)

On_deleted == \E event \in Events : Record(event)

----------------------------------------------------------------------------
(* RepositoryChangeHandler.should_push, called from do_push on the main    *)
(* thread.                                                                 *)

\* `return value` of should_push, back to do_push
SP_Return(value, path) ==
    /\ sp_ret' = value
    /\ sp_path' = path
    /\ pc' = "dp_check"

\* a git command of the tick loop returns after d seconds
RunGit(d) ==
    /\ now' = now + d
    /\ loopCalls' = Counted

\* current_time = time.time()
SP_Time ==
    /\ pc = "sp_time"
    /\ current_time' = now
    /\ pc' = "sp_pending"
    /\ UNCHANGED << now, exit_code, observing, tracker, repo, seen_status,
                    seen_revlist, cpLocals, spHist, cycleHist, evHist,
                    loopCalls, call, failed_check >>

\* the flag not looked at
SP_PendingSkipped ==
    /\ pc = "sp_pending"
    /\ pc' = "sp_cooldown"
    /\ UNCHANGED << now, exit_code, observing, tracker, repo, spLocals,
                    cpLocals, spHist, cycleHist, evHist, loopCalls, call,
                    failed_check >>

\* if not self.pending_changes: return False
SP_Pending ==
    /\ pc = "sp_pending"
    /\ IF ~pending_changes
          THEN SP_Return(FALSE, "not_pending")
          ELSE pc' = "sp_cooldown" /\ UNCHANGED spHist
    /\ UNCHANGED << now, exit_code, observing, tracker, repo, spLocals,
                    cpLocals, cycleHist, evHist, loopCalls, call, failed_check >>

\* no cooldown at all
CooldownNever == FALSE

\* last_push_time left out
CooldownFromEpoch == current_time < push_cooldown

\* current_time - self.last_push_time < self.push_cooldown
CooldownActive == current_time - last_push_time < push_cooldown

\* if current_time - self.last_push_time < self.push_cooldown: return False
SP_Cooldown ==
    /\ pc = "sp_cooldown"
    /\ IF CooldownActive
          THEN SP_Return(FALSE, "cooldown")
          ELSE pc' = "sp_status" /\ UNCHANGED spHist
    /\ UNCHANGED << now, exit_code, observing, tracker, repo, spLocals,
                    cpLocals, cycleHist, evHist, loopCalls, call, failed_check >>

\* the answer True whatever the output
NonEmptyAlways(output) == TRUE

\* has_changes / has_unpushed_commits: return len(output) > 0
NonEmpty(output) == Len(output) > 0

\* not self.git_manager.has_changes() and ...: git status --porcelain;
\* a true has_changes() decides the condition, and should_push returns True
SP_HasChanges ==
    /\ pc = "sp_status"
    /\ \E r \in GitStatus, d \in CallTimes :
          /\ RunGit(d)
          /\ seen_status' = Seen(r)
          /\ IF NonEmpty(r.stdout)
                THEN SP_Return(TRUE, "changes")
                ELSE pc' = "sp_branch" /\ UNCHANGED spHist
    /\ unobserved' = FALSE
    /\ UNCHANGED << exit_code, observing, tracker, repo, current_time,
                    seen_revlist, cpLocals, cycleHist, sinceClear, seen, call, failed_check >>

\* has_unpushed_commits: branch = self.get_current_branch(), not used after
SP_Branch ==
    /\ pc = "sp_branch"
    /\ \E r \in GitRevParse, d \in CallTimes : RunGit(d)
    /\ pc' = "sp_revlist"
    /\ UNCHANGED << exit_code, observing, tracker, repo, spLocals, cpLocals,
                    spHist, cycleHist, evHist, call, failed_check >>

\* ... and not self.git_manager.has_unpushed_commits(): git rev-list @{u}..HEAD
SP_RevList ==
    /\ pc = "sp_revlist"
    /\ \E r \in GitRevList, d \in CallTimes :
          /\ RunGit(d)
          /\ seen_revlist' = Seen(r)
          /\ IF NonEmpty(r.stdout)
                THEN SP_Return(TRUE, "unpushed")
                ELSE pc' = "sp_clear" /\ UNCHANGED spHist
    /\ UNCHANGED << exit_code, observing, tracker, repo, current_time,
                    seen_status, cpLocals, cycleHist, evHist, call, failed_check >>

\* return True
SuppressReturnsTrue == SP_Return(TRUE, "clean")

\* the return that follows the clear of the false-positive branch
SuppressReturn == SP_Return(FALSE, "clean")

\* the flag left as it is
SuppressKeepsFlag == pending_changes

\* the value stored by the clear of the false-positive branch
SuppressStore == FALSE

\* self.pending_changes = False; return False
SP_Clear ==
    /\ pc = "sp_clear"
    /\ pending_changes' = SuppressStore
    /\ sinceClear' = FALSE
    /\ SuppressReturn
    /\ UNCHANGED << now, exit_code, observing, last_push_time, repo, spLocals,
                    cpLocals, cycleHist, unobserved, seen, loopCalls, call, failed_check >>

----------------------------------------------------------------------------
(* RepositoryChangeHandler.do_push *)

\* if not self.should_push(): return; the locals of should_push are gone
DP_Check ==
    /\ pc = "dp_check"
    /\ pc' = IF ~sp_ret THEN "sleep" ELSE "dp_time"
    /\ current_time' = 0
    /\ seen_status' = "none"
    /\ seen_revlist' = "none"
    /\ UNCHANGED << now, exit_code, observing, tracker, repo, cpLocals, spHist,
                    cycleHist, evHist, loopCalls, call, failed_check >>

\* the time left as it is
ClaimTimeStale == last_push_time

\* the value stored as the time of the push attempt: time.time()
ClaimTime == now

\* self.last_push_time = time.time()
DP_Time ==
    /\ pc = "dp_time"
    /\ last_push_time' = ClaimTime
    /\ pc' = "dp_clear"
    /\ UNCHANGED << now, exit_code, observing, pending_changes, repo, spLocals,
                    cpLocals, spHist, cycleHist, evHist, loopCalls, call, failed_check >>

\* the flag left as it is
ClaimKeepsFlag == pending_changes

\* the value stored by the clear that claims the pending state
ClaimStore == FALSE

\* self.pending_changes = False; then commit_and_push(message) is entered
DP_Clear ==
    /\ pc = "dp_clear"
    /\ pending_changes' = ClaimStore
    /\ sinceClear' = FALSE
    /\ pc' = "cp_branch"
    /\ cp_ret' = FALSE
    /\ cp_log' = "none"
    /\ cp_stage' = "entered"
    /\ commit_seen' = NoResult
    /\ pushLog' = << >>
    /\ pushAt' = 0
    /\ pauseOk' = TRUE
    /\ ops' = << >>
    /\ UNCHANGED << now, exit_code, observing, last_push_time, repo, spLocals,
                    cpLocals, spHist, unobserved, seen, loopCalls, call, failed_check >>

----------------------------------------------------------------------------
(* GitManager.commit_and_push *)

\* a False result ends the process
CP_ReturnRaises(value, level, stage) ==
    /\ cp_ret' = value
    /\ cp_log' = level
    /\ cp_stage' = stage
    /\ branch' = "main"
    /\ attempt' = 0
    /\ pushAt' = 0
    /\ pc' = IF value THEN "sleep" ELSE "exited"

\* `return value` of commit_and_push: its locals are gone; do_push discards
\* the value and returns to the loop of main
CP_Return(value, level, stage) ==
    /\ cp_ret' = value
    /\ cp_log' = level
    /\ cp_stage' = stage
    /\ branch' = "main"
    /\ attempt' = 0
    /\ pushAt' = 0
    /\ pc' = "sleep"

\* branch = self.get_current_branch(): output if code == 0 else 'main'
CP_Branch ==
    /\ pc = "cp_branch"
    /\ \E r \in GitRevParse, d \in CallTimes :
          /\ RunGit(d)
          /\ branch' = IF r.code = 0 THEN r.stdout ELSE "main"
    /\ pc' = "cp_add"
    /\ UNCHANGED << exit_code, observing, tracker, repo, spLocals, attempt,
                    spHist, cycleHist, evHist, call, failed_check >>

\* git add -A; if code != 0: logger.error; return False
CP_Add ==
    /\ pc = "cp_add"
    /\ \E r \in GitAdd, d \in CallTimes :
          /\ RunGit(d)
          /\ ops' = Append(ops, Op("add", r.code))
          /\ IF r.code # 0
                THEN /\ CP_Return(FALSE, "error", "stage_failed")
                     /\ UNCHANGED << wt, index >>
                ELSE /\ index' = (index \/ wt)
                     /\ wt' = FALSE
                     /\ cp_stage' = "staged"
                     /\ pc' = "cp_commit"
                     /\ UNCHANGED << cp_ret, cp_log, cpLocals, pushAt >>
    /\ unobserved' = FALSE
    /\ UNCHANGED << exit_code, observing, tracker, ahead, spLocals, spHist,
                    commit_seen, pushLog, pauseOk, sinceClear, seen, call, failed_check >>

\* every failed commit taken as "nothing to commit"
NothingAlways(output, stderr) == TRUE

\* only stderr searched
NothingOnlyInStderr(output, stderr) ==
    Contains("nothing to commit", stderr)

\* 'nothing to commit' in stderr or 'nothing to commit' in output
NothingToCommit(output, stderr) ==
    Contains("nothing to commit", stderr) \/ Contains("nothing to commit", output)

\* git commit -m message; a non-zero code returns False, logged as a warning
\* for "nothing to commit" and as an error otherwise
CP_Commit ==
    /\ pc = "cp_commit"
    /\ \E r \in GitCommit, d \in CallTimes :
          /\ RunGit(d)
          /\ commit_seen' = r
          /\ ops' = Append(ops, Op("commit", r.code))
          /\ IF r.code # 0
                THEN /\ IF NothingToCommit(r.stdout, r.stderr)
                           THEN CP_Return(FALSE, "warning", "nothing_to_commit")
                           ELSE CP_Return(FALSE, "error", "commit_failed")
                     /\ UNCHANGED << index, ahead >>
                ELSE /\ index' = FALSE
                     /\ ahead' = TRUE
                     /\ cp_log' = "info"
                     /\ cp_stage' = "committed"
                     /\ pc' = "cp_for"
                     /\ UNCHANGED << cp_ret, cpLocals, pushAt >>
    /\ UNCHANGED << exit_code, observing, tracker, wt, spLocals, spHist,
                    pushLog, pauseOk, evHist, call, failed_check >>

\* range(1, self.max_retries)
AttemptsOneShort == 1..(max_retries - 1)

\* range(1, self.max_retries + 1)
Attempts == 1..max_retries

\* for attempt in range(...): the next attempt, or, the range used up,
\* logger.error("Falha ao fazer push ..."); return False
CP_For ==
    /\ pc = "cp_for"
    /\ IF attempt + 1 \in Attempts
          THEN /\ attempt' = attempt + 1
               /\ pc' = "cp_push"
               /\ UNCHANGED << cp_ret, cp_log, cp_stage, branch, pushAt >>
          ELSE CP_Return(FALSE, "error", "push_exhausted")
    /\ UNCHANGED << now, exit_code, observing, tracker, repo, spLocals, spHist,
                    commit_seen, pushLog, pauseOk, ops, evHist, loopCalls, call,
                    failed_check >>

\* the comparison turned around
PauseNever == attempt > max_retries

\* if attempt < self.max_retries: (warn and) time.sleep(self.retry_delay)
PauseAfterFailure == attempt < max_retries

\* git push origin branch; code == 0 logs success and returns True
CP_Push ==
    /\ pc = "cp_push"
    /\ \E r \in GitPush, d \in CallTimes :
          /\ RunGit(d)
          /\ pushLog' = Append(pushLog, r.code)
          /\ ops' = Append(ops, Op("push", r.code))
          /\ pauseOk' = (pauseOk /\ (pushLog = << >> \/ now - pushAt >= retry_delay))
          /\ IF r.code = 0
                THEN /\ ahead' = FALSE
                     /\ CP_Return(TRUE, "info", "pushed")
                ELSE /\ pc' = IF PauseAfterFailure THEN "cp_retry_sleep" ELSE "cp_for"
                     /\ pushAt' = now + d
                     /\ UNCHANGED << ahead, cp_ret, cp_log, cp_stage, cpLocals >>
    /\ UNCHANGED << exit_code, observing, tracker, wt, index, spLocals, spHist,
                    commit_seen, evHist, call, failed_check >>

\* time.sleep(self.retry_delay)
CP_RetrySleep ==
    /\ pc = "cp_retry_sleep"
    /\ now + retry_delay <= MaxTime
    /\ now' = now + retry_delay
    /\ pc' = "cp_for"
    /\ UNCHANGED << exit_code, observing, tracker, repo, spLocals, cpLocals,
                    spHist, cycleHist, evHist, loopCalls, call, failed_check >>

----------------------------------------------------------------------------
(* main(): the tick loop *)

\* time.sleep(1); event_handler.do_push() enters should_push
Sleep ==
    /\ pc = "sleep"
    /\ now + TickSeconds <= MaxTime
    /\ now' = now + TickSeconds
    /\ pc' = "sp_time"
    /\ UNCHANGED << exit_code, observing, tracker, repo, spLocals, cpLocals,
                    spHist, cycleHist, evHist, loopCalls, call, failed_check >>

\* the statements inside the try block of main
LoopPcs == { "sleep", "sp_time", "sp_pending", "sp_cooldown", "sp_status",
             "sp_branch", "sp_revlist", "sp_clear", "dp_check", "dp_time",
             "dp_clear", "cp_branch", "cp_add", "cp_commit", "cp_for",
             "cp_push", "cp_retry_sleep" }

\* except KeyboardInterrupt: observer.stop(); observer.join(); the script ends
KeyboardInterrupt ==
    /\ pc \in LoopPcs
    /\ pc' = "finished"
    /\ observing' = FALSE
    /\ exit_code' = 0
    /\ UNCHANGED << now, tracker, repo, spLocals, cpLocals, spHist, cycleHist,
                    evHist, loopCalls, call, failed_check >>

----------------------------------------------------------------------------
Next ==
    \/ CheckUserName
    \/ CheckUserEmail
    \/ CheckRemote
    \/ PrintStatus
    \/ ObserverStart
    \/ FileOperation
    \/ On_modified
    \/ On_created
    \/ On_deleted
    \/ Sleep
    \/ SP_Time
    \/ SP_Pending
    \/ SP_Cooldown
    \/ SP_HasChanges
    \/ SP_Branch
    \/ SP_RevList
    \/ SP_Clear
    \/ DP_Check
    \/ DP_Time
    \/ DP_Clear
    \/ CP_Branch
    \/ CP_Add
    \/ CP_Commit
    \/ CP_For
    \/ CP_Push
    \/ CP_RetrySleep
    \/ KeyboardInterrupt

Spec == Init /\ [][Next]_vars

----------------------------------------------------------------------------
(* should_push called on its own, again and again, on any TrackerState and *)
(* any repository: no event arrives and the repository does not change;    *)
(* time passes only while the git commands run.                            *)

\* the TrackerState, the repository and the clock a call can find
RepeatInit ==
    /\ now = StartTime + push_cooldown
    /\ pc = "sp_time"
    /\ exit_code = -1
    /\ observing = FALSE
    /\ pending_changes \in BOOLEAN
    /\ last_push_time \in { 0 } \cup ((now - push_cooldown - 1)..now)
    /\ current_time = 0
    /\ branch = "main"
    /\ attempt = 0
    /\ wt \in BOOLEAN
    /\ index \in BOOLEAN
    /\ ahead \in BOOLEAN
    /\ seen_status = "none"
    /\ seen_revlist = "none"
    /\ sp_ret = FALSE
    /\ sp_path = "none"
    /\ cp_ret = FALSE
    /\ cp_log = "none"
    /\ cp_stage = "none"
    /\ commit_seen = NoResult
    /\ pushLog = << >>
    /\ pushAt = 0
    /\ pauseOk = TRUE
    /\ sinceClear = pending_changes
    /\ unobserved = FALSE
    /\ seen = "none"
    /\ loopCalls = 0
    /\ call = [NoCall EXCEPT !.n = 1, !.pending = pending_changes,
                             !.lpt = last_push_time]
    /\ ops = << >>
    /\ failed_check = "none"

\* should_push has returned and is called again
CallAgain ==
    /\ pc = "dp_check"
    /\ call.n < MaxRepeat
    /\ call' = [n |-> call.n + 1, pending |-> pending_changes,
                lpt |-> last_push_time, ret |-> sp_ret,
                cooldown |-> CooldownActive]
    /\ pc' = "sp_time"
    /\ current_time' = 0
    /\ seen_status' = "none"
    /\ seen_revlist' = "none"
    /\ UNCHANGED << now, exit_code, observing, tracker, repo, cpLocals, spHist,
                    cycleHist, evHist, loopCalls, failed_check >>

RepeatNext ==
    \/ SP_Time
    \/ SP_Pending
    \/ SP_Cooldown
    \/ SP_HasChanges
    \/ SP_Branch
    \/ SP_RevList
    \/ SP_Clear
    \/ CallAgain

RepeatSpec == RepeatInit /\ [][RepeatNext]_vars

----------------------------------------------------------------------------
(* Properties *)

\* a push cycle that ended in a non-fatal failure
FailureStages == { "stage_failed", "commit_failed", "push_exhausted" }

\* the running call of should_push was made within the cooldown
WithinCooldown == current_time - last_push_time < push_cooldown

\* a query of the running call of should_push failed
QueryFailed == "failed" \in { seen_status, seen_revlist }

\* the statements of the push loop of commit_and_push
PushLoopPcs == { "cp_for", "cp_push", "cp_retry_sleep" }

\* no push of the log succeeded
AllFailed(log) == \A i \in 1..Len(log) : log[i] # 0

\* C1: the write of an accepted event is never lost: when a push decision
\* is over (the main thread is back in the loop's sleep), every accepted
\* event was followed by a status query or by staging, or pending_changes
\* is still true.
C1_NoLostWrite ==
    (pc = "sleep" /\ unobserved) => pending_changes

\* C2, as claimed: after a failed push cycle the next tick on which the
\* cooldown has elapsed, no query fails and the work is still in the
\* repository re-attempts: should_push returns True.
C2_SelfHealsNextTick ==
    ( /\ pc = "dp_check"
      /\ cp_stage \in FailureStages
      /\ wt \/ index \/ ahead
      /\ ~WithinCooldown
      /\ ~QueryFailed )
    => sp_ret

\* C2, amended: after a failed push cycle should_push returns True only
\* after a new accepted event has set pending_changes again; it then does
\* return True when the cooldown has elapsed, no query fails and the work
\* staged or committed by the failed cycle is still there.
C2_RetryNeedsNewEvent ==
    (pc = "dp_check" /\ cp_stage \in FailureStages) =>
        /\ sp_ret => sinceClear
        /\ ( /\ sp_path # "not_pending"
             /\ ~WithinCooldown
             /\ ~QueryFailed
             /\ index \/ ahead ) => sp_ret

\* C2 witness: a tick after a failed cycle starts a new cycle
C2_Witness ==
    /\ pc = "dp_check"
    /\ cp_stage \in FailureStages
    /\ sp_ret
    /\ index \/ ahead

\* C3: pending_changes is true exactly when an accepted event has occurred
\* since the last clear of a push decision (the clear of the false-positive
\* branch of should_push, the clear at the start of do_push): an accepted
\* event sets it, and nothing else resets it.
C3_PendingIffEventSinceClear ==
    pending_changes <=> sinceClear

\* C3 witness: the flag set by an accepted event is still set after a tick
\* that returned within the cooldown
C3_Witness ==
    /\ pc = "sleep"
    /\ sp_path = "cooldown"
    /\ pending_changes
    /\ sinceClear

\* C4: as long as every event had an excluded path, pending_changes is
\* false, the tick loop has run no git command and no push cycle has started.
C4_ExcludedEventsLeaveNoTrace ==
    seen = "excluded" =>
        /\ ~pending_changes
        /\ loopCalls = 0
        /\ cp_stage = "none"
        /\ last_push_time = 0

\* C4 witness: ticks have run after events with excluded paths
C4_Witness ==
    /\ seen = "excluded"
    /\ pc = "dp_check"
    /\ now >= StartTime + 2

\* C5: a call of should_push made less than push_cooldown after
\* last_push_time returns False, and reaches no backend query.
C5_CooldownBlocks ==
    /\ (pc = "dp_check" /\ WithinCooldown) => ~sp_ret
    /\ pc \in { "sp_status", "sp_branch", "sp_revlist", "sp_clear" } => ~WithinCooldown

\* C5 witness: a call within the cooldown with the flag set and work in the
\* repository has returned
C5_Witness ==
    /\ pc = "dp_check"
    /\ WithinCooldown
    /\ pending_changes
    /\ wt /\ ahead
    /\ ~sp_ret

\* C6: when both queries of should_push answer with empty output, it
\* returns False and has cleared pending_changes (the flag is set again
\* only by an accepted event after the clear).
C6_FalsePositiveSuppressed ==
    (pc = "dp_check" /\ seen_status = "empty" /\ seen_revlist = "empty") =>
        /\ ~sp_ret
        /\ pending_changes => sinceClear

\* C6 witness: should_push has returned from the false-positive branch
C6_Witness ==
    /\ pc = "dp_check"
    /\ seen_status = "empty"
    /\ seen_revlist = "empty"
    /\ ~pending_changes
    /\ ~sp_ret

\* C7: git push is invoked until it first succeeds: nothing is pushed after
\* a success, a success is reported as success at once, and the loop does
\* not give up before max_retries failures.
C7_PushRetriedUntilSuccess ==
    /\ Len(pushLog) <= max_retries
    /\ \A i \in 1..Len(pushLog) : pushLog[i] = 0 => i = Len(pushLog)
    /\ (pushLog # << >> /\ pushLog[Len(pushLog)] = 0) =>
           (cp_ret /\ cp_stage = "pushed" /\ pc \notin PushLoopPcs)
    /\ cp_stage = "push_exhausted" => Len(pushLog) >= max_retries

\* C7 witness: the push failed twice, then succeeded
C7_Witness ==
    /\ pushLog = << 1, 1, 0 >>
    /\ cp_ret
    /\ pc = "sleep"

\* C8: when every push fails, commit_and_push returns False after exactly
\* max_retries invocations, each at least retry_delay after the one before.
C8_PushRetryExhaustion ==
    /\ pauseOk
    /\ cp_stage = "push_exhausted" =>
           /\ Len(pushLog) = max_retries
           /\ AllFailed(pushLog)
           /\ ~cp_ret
           /\ cp_log = "error"
    /\ (Len(pushLog) = max_retries /\ AllFailed(pushLog)) =>
           (cp_stage = "push_exhausted" \/ pc \in { "cp_for", "finished" })

\* C8 witness: a cycle has given up after max_retries failed pushes
C8_Witness ==
    /\ cp_stage = "push_exhausted"
    /\ pc = "sleep"
    /\ Len(pushLog) = max_retries

\* C9: when git commit fails with a "nothing to commit" message, the cycle
\* stops with a warning, not an error, and git push is not invoked.
C9_NothingToCommitIsBenign ==
    ( /\ commit_seen.code > 0
      /\ \/ Contains("nothing to commit", commit_seen.stdout)
         \/ Contains("nothing to commit", commit_seen.stderr) )
    => /\ cp_log = "warning"
       /\ ~cp_ret
       /\ pushLog = << >>
       /\ pc \notin PushLoopPcs

\* C9 witness: a cycle has stopped on "nothing to commit"
C9_Witness ==
    /\ commit_seen.stdout = "nothing to commit, working tree clean"
    /\ pc = "sleep"
    /\ cp_stage = "nothing_to_commit"

\* the cooldown state is the one the previous call found
SameCooldown == call.cooldown = WithinCooldown

\* C10, as claimed: a call of should_push, made again and again with no
\* event and no change of the repository, leaves pending_changes and
\* last_push_time as they were and, the cooldown state being the same,
\* returns what the call before returned.
C10_Idempotent ==
    pc = "dp_check" =>
        /\ pending_changes = call.pending
        /\ last_push_time = call.lpt
        /\ (call.n > 1 /\ SameCooldown) => sp_ret = call.ret

\* C10, amended: such a call never changes last_push_time; it changes
\* pending_changes only by the clear of the false-positive branch, and,
\* after a first call, only if the cooldown state changed or a query failed;
\* the cooldown state being the same and no query failing, it returns what
\* the call before returned.
C10_IdempotentButSuppression ==
    pc = "dp_check" =>
        /\ last_push_time = call.lpt
        /\ pending_changes # call.pending =>
               /\ call.pending /\ ~pending_changes /\ ~sp_ret
               /\ seen_status \in { "empty", "failed" }
               /\ seen_revlist \in { "empty", "failed" }
        /\ (call.n > 1 /\ SameCooldown /\ ~QueryFailed) =>
               /\ sp_ret = call.ret
               /\ pending_changes = call.pending

\* C10 witness: a second call has returned True as the first did
C10_Witness ==
    /\ pc = "dp_check"
    /\ call.n = 2
    /\ call.ret
    /\ sp_ret

\* the statements of commit_and_push
CyclePcs == { "cp_branch", "cp_add", "cp_commit", "cp_for", "cp_push",
              "cp_retry_sleep" }

\* a push sequence has started and has not returned
InFlight == cp_stage \in { "entered", "staged", "committed" }

\* C11: at most one push sequence runs at a time: the main thread is inside
\* commit_and_push exactly while the one sequence is in flight (or was
\* interrupted there), a sequence starts only from do_push and only when none
\* is in flight, and a step that sets pending_changes does nothing else to
\* the push decision: it moves no statement of the main thread, starts no
\* sequence, runs no git command and leaves last_push_time alone.
C11_OnePushSequence ==
    /\ [](pc \in CyclePcs => InFlight)
    /\ [](InFlight => pc \in CyclePcs \cup { "finished" })
    /\ [][ /\ (pc' = "cp_branch" /\ pc # "cp_branch") =>
                  (pc = "dp_clear" /\ ~InFlight)
           /\ (pending_changes' /\ ~pending_changes) =>
                  UNCHANGED << pc, cycleHist, last_push_time, loopCalls, now >>
         ]_vars

\* C11 witness: an accepted event has arrived while the second push of a
\* sequence is about to run
C11_Witness ==
    /\ pc = "cp_push"
    /\ attempt = 2
    /\ pending_changes

\* a git add, git commit or git push of the current or last cycle failed or
\* timed out
OpFailed == \E i \in 1..Len(ops) : ops[i].code # 0

\* C12: no non-fatal error ends the process: after a staging failure, a
\* commit failure, push retry exhaustion or a failed or timed-out git command
\* the main thread is still in the tick loop (or was interrupted from the
\* keyboard, exit code 0), the loop runs with no exit code, and the process
\* never exits with an error once the tick loop has run a git command.
C12_NonFatalErrorsKeepLoop ==
    /\ (cp_stage \in FailureStages \/ OpFailed \/ QueryFailed) =>
           pc \in LoopPcs \cup { "finished" }
    /\ pc \in LoopPcs => (exit_code = -1 /\ observing)
    /\ pc = "finished" => exit_code = 0
    /\ exit_code > 0 => (loopCalls = 0 /\ cp_stage = "none")

\* C12 witness: after a cycle whose git add timed out, an accepted event has
\* arrived and a tick starts a new cycle
C12_Witness ==
    /\ pc = "dp_clear"
    /\ cp_stage = "stage_failed"
    /\ ops = << Op("add", 1) >>
    /\ sinceClear

\* C13: when a startup check fails (git config user.name, git config
\* user.email, git ls-remote origin), the process has exited with a non-zero
\* code, the observer was never started, no event was recorded, and the tick
\* loop never ran: no git command of the loop, no add, commit or push.
C13_StartupFailureAborts ==
    failed_check # "none" =>
        /\ pc = "exited"
        /\ exit_code > 0
        /\ ~observing
        /\ ~pending_changes
        /\ seen = "none"
        /\ loopCalls = 0
        /\ cp_stage = "none"
        /\ ops = << >>
        /\ pushLog = << >>

\* C13 witness: the remote was unreachable, after both identity checks passed
C13_Witness ==
    /\ failed_check = "remote"
    /\ pc = "exited"
    /\ exit_code = 1

\* git push was invoked in the current or last cycle
PushInvoked == \E i \in 1..Len(ops) : ops[i].op = "push"

\* C14: a cycle started because of unpushed commits with a clean working
\* tree (git status empty, git rev-list not empty), in which git add
\* succeeded and git commit did not fail with an error, has invoked git push
\* by the time it ends.
C14_DueCyclePushes ==
    ( /\ pc = "sleep"
      /\ sp_path = "unpushed"
      /\ ops # << >>
      /\ ops[1] = Op("add", 0)
      /\ cp_stage # "commit_failed" )
    => PushInvoked

\* the last push cycle has returned
CycleEnded == cp_stage \in { "pushed", "stage_failed", "commit_failed",
                            "nothing_to_commit", "push_exhausted" }

\* C15: do_push claims the pending state before the cycle runs: when the
\* flag is about to be cleared last_push_time is the current time, and inside
\* commit_and_push last_push_time is set and the flag is clear unless an
\* accepted event has arrived since; after the cycle has ended, whatever its
\* outcome, with no accepted event since its start, pending_changes is false,
\* should_push returns False and no new cycle is started.
C15_AttemptClaimsPending ==
    /\ pc = "dp_clear" => last_push_time = now
    /\ pc \in CyclePcs =>
           /\ last_push_time > 0
           /\ last_push_time <= now
           /\ ~sinceClear => ~pending_changes
    /\ (CycleEnded /\ ~sinceClear) =>
           /\ ~pending_changes
           /\ pc \notin { "dp_time", "dp_clear" }
           /\ pc = "dp_check" => ~sp_ret

\* C15 witness: after a cycle that gave up pushing, with its commit still
\* unpushed and no event since, a tick has returned without a new cycle
C15_Witness ==
    /\ pc = "dp_check"
    /\ cp_stage = "push_exhausted"
    /\ ahead
    /\ ~sinceClear
    /\ sp_path = "not_pending"

\* C16: an accepted event that arrives while commit_and_push runs (after
\* do_push cleared the flag) sets pending_changes, and no step taken from
\* inside commit_and_push, its return included, turns a set flag off.
C16_EventsDuringCycleKept ==
    /\ []((pc \in CyclePcs /\ sinceClear) => pending_changes)
    /\ [][(pc \in CyclePcs /\ pending_changes) => pending_changes']_vars

\* C16 witness: an accepted event has arrived by the first retry pause of a
\* cycle
C16_Witness ==
    /\ pc = "cp_retry_sleep"
    /\ attempt = 1
    /\ sinceClear
    /\ pending_changes

\* the indices of ops at which an operation was invoked
Invocations(name) == { i \in 1..Len(ops) : ops[i].op = name }

\* git commit of this cycle failed, and not with "nothing to commit"
CommitError ==
    /\ commit_seen.code > 0
    /\ ~Contains("nothing to commit", commit_seen.stdout)
    /\ ~Contains("nothing to commit", commit_seen.stderr)

\* C17: git add and git commit are invoked at most once in a cycle, in this
\* order and before any push; when git add fails the cycle has returned
\* False with an error and with neither commit nor push invoked; when git
\* commit fails with anything but "nothing to commit" the cycle has returned
\* False with an error and with no push invoked.
C17_NonTransientNotRetried ==
    /\ Invocations("add") \subseteq { 1 }
    /\ Invocations("commit") \subseteq { 2 }
    /\ (ops # << >> /\ ops[1].code # 0) =>
           /\ Len(ops) = 1
           /\ cp_stage = "stage_failed"
           /\ ~cp_ret
           /\ cp_log = "error"
           /\ pc \notin CyclePcs
    /\ CommitError =>
           /\ Len(ops) = 2
           /\ ops[2] = Op("commit", commit_seen.code)
           /\ cp_stage = "commit_failed"
           /\ ~cp_ret
           /\ cp_log = "error"
           /\ pc \notin CyclePcs

\* C17 witness: a cycle has stopped on a commit that failed for want of an
\* identity
C17_Witness ==
    /\ pc = "sleep"
    /\ ops = << Op("add", 0), Op("commit", 128) >>
    /\ cp_stage = "commit_failed"

\* the statements of should_push that run a git command, and the clear that
\* follows them
QueryPcs == { "sp_status", "sp_branch", "sp_revlist", "sp_clear" }

\* C18: should_push reaches its git commands only with pending_changes true
\* and the cooldown elapsed; a call that returned because the flag was false
\* or the cooldown active has run neither git status nor git rev-list.
C18_LocalChecksFirst ==
    /\ pc \in QueryPcs => (pending_changes /\ ~WithinCooldown)
    /\ pc = "sp_cooldown" => pending_changes
    /\ (pc = "dp_check" /\ sp_path \in { "not_pending", "cooldown" }) =>
           /\ ~sp_ret
           /\ seen_status = "none"
           /\ seen_revlist = "none"
    /\ (pc = "dp_check" /\ seen_status # "none") =>
           sp_path \in { "changes", "unpushed", "clean" }

\* C18 witness: a tick with the flag false has returned without a git
\* command, although the repository has changes and unpushed commits
C18_Witness ==
    /\ pc = "dp_check"
    /\ sp_path = "not_pending"
    /\ wt /\ ahead
    /\ loopCalls = 0
    /\ seen = "none"

\* C19: every store to last_push_time, the start of a push cycle, puts it at
\* least push_cooldown later than the value it replaces, the start of the
\* cycle before: no two cycles start within one cooldown window, whatever
\* events arrive in it.
C19_CooldownSpacing ==
    [][last_push_time' # last_push_time =>
           last_push_time' - last_push_time >= push_cooldown]_vars

\* C19 witness: a second cycle is starting, with an accepted event recorded
\* since the first one began
C19_Witness ==
    /\ pc = "dp_clear"
    /\ CycleEnded
    /\ last_push_time = now
    /\ sinceClear

\* both queries of the call of should_push that has returned failed
BothQueriesFailed ==
    pc = "dp_check" /\ seen_status = "failed" /\ seen_revlist = "failed"

\* C20: a failed or timed-out query counts as an empty answer: after a failed
\* git status, should_push goes on to git rev-list; when both fail it has
\* returned False through the false-positive branch, with pending_changes
\* cleared (set again only by a later accepted event), and do_push goes back
\* to the loop with last_push_time as it was and no add, commit or push.
C20_FailedQueryLooksClean ==
    /\ []((pc = "dp_check" /\ seen_status = "failed") => seen_revlist # "none")
    /\ [](BothQueriesFailed =>
             /\ ~sp_ret
             /\ sp_path = "clean"
             /\ pending_changes => sinceClear)
    /\ [][BothQueriesFailed =>
             /\ pc' \in { "dp_check", "sleep", "finished" }
             /\ UNCHANGED << last_push_time, ops >>]_vars

\* C20 witness: both queries failed while the repository had changes and
\* unpushed commits, and the flag is cleared
C20_Witness ==
    /\ BothQueriesFailed
    /\ wt /\ ahead
    /\ ~pending_changes
    /\ ~sp_ret

====
